---- MODULE Spec2Model ----
(***************************************************************************)
(* A model of the editing core of fate: the text value type and its        *)
(* transformations (fate/text.py), the editing session (session.py) and    *)
(* the view-mapping engine (fate/textview.py).                             *)
(*                                                                         *)
(* A text is a sequence of one-character strings.  An interval is a pair   *)
(* <<beg, end>>, a selection a sequence of intervals in position order.    *)
(***************************************************************************)
EXTENDS Integers, Sequences, FiniteSets, TLC

VARIABLES
    text,   \* Session.text / the StringText a method is called on
    last,   \* the operation the session applied last, and the text before it
    out,    \* the outcome of the last call of a Text method
    doc,    \* the document a view is built for
    view    \* the outcome of the last construction of a view

vars == <<text, last, out, doc, view>>
textVars == <<text, last, out>>
viewVars == <<doc, view>>

-----------------------------------------------------------------------------
(* Bounds of the model *)

MaxLen == 3         \* longest text
MaxIntervals == 2   \* most intervals in a selection
MaxDocLen == 2      \* longest text of a document a view is built for
MaxSubs == 2        \* most substitutions of a document
MaxWidth == 2       \* widest screen
MaxHeight == 2      \* highest screen

Chars == {"a", "b"}
ReplacementStrings == {<<>>, <<"X">>}
DocChars == {"a", "\n"}
ConcealStrings == {<<>>, <<"X">>, <<"X", "X">>}

Max(x, y) == IF x >= y THEN x ELSE y
Min(x, y) == IF x <= y THEN x ELSE y

SeqsUpTo(S, n) == UNION {[1..k -> S] : k \in 0..n}
Texts == SeqsUpTo(Chars, MaxLen)

RECURSIVE Concat(_)
Concat(strings) ==
    IF strings = <<>> THEN <<>> ELSE Head(strings) \o Concat(Tail(strings))

-----------------------------------------------------------------------------
(* Intervals and selections (fate/selection.py, not among the sources) *)

Interval(beg, end) == <<beg, end>>

Intervals(n) == {Interval(b, e) : b \in 0..n, e \in 0..n} \cap
                {iv \in (0..n) \X (0..n) : iv[1] <= iv[2]}

\* Intervals of a selection are in position order and neither overlap nor touch.
IsSelection(sel) ==
    \A i \in 1..(Len(sel) - 1) : sel[i][2] < sel[i + 1][1]

Selections(n) == {sel \in SeqsUpTo(Intervals(n), MaxIntervals) : IsSelection(sel)}

\* Selection.partition(text): the selected and the complementary runs, in
\* order, as (in_selection, interval) pairs.  A text shorter than the end of
\* the selection has no partition: see Partitions.
Partition(length, sel) ==
    LET positions == <<0>> \o Concat(sel) \o <<length>>
    IN [i \in 1..(Len(positions) - 1) |->
            [in_selection |-> (i % 2 = 0),
             interval |-> Interval(positions[i], positions[i + 1])]]

\* Whether the selection lies in a text of this length
Partitions(length, sel) == sel = <<>> \/ sel[Len(sel)][2] <= length

-----------------------------------------------------------------------------
(* fate/text.py: StringText *)

\* str.__getitem__(slice(beg, end)): Python's slice, which clamps its indices.
PyIndex(i, length) ==
    IF i < 0 THEN Max(0, i + length) ELSE Min(i, length)

Slice(s, beg, end) ==
    LET lo == PyIndex(beg, Len(s))
        hi == PyIndex(end, Len(s))
    IN IF lo < hi THEN SubSeq(s, lo + 1, hi) ELSE <<>>

StringText(content) ==
    [kind |-> "StringText", str |-> content, origin |-> content,
     beg |-> 0, end |-> Len(content)]

\* PartialText.__init__: the fields of a window on origin.  PartialText(text,
\* beg, end) itself raises TypeError, StringText.__new__ taking the content
\* alone; a window is an instance that holds what __init__ assigns.
PartialText(origin, beg, end) ==
    [kind |-> "PartialText", str |-> Slice(origin, beg, end), origin |-> origin,
     beg |-> beg, end |-> end]

\* PartialText.__contains__
PartialContainsInt(self, item) == self.beg <= item /\ item <= self.end

\* PartialText.__contains__ without the comparison with self.end
PartialContainsIntervalNoEnd(self, item) ==
    self.beg <= item[1] /\ item[1] <= item[2]

PartialContainsInterval(self, item) ==
    self.beg <= item[1] /\ item[1] <= item[2] /\ item[2] <= self.end

\* self[interval], as the subscript calls it (failfast takes its default, False)
GetItemInterval(self, item) ==
    IF self.kind = "PartialText"
    THEN Slice(self.str, Max(0, item[1] - self.beg), Max(0, item[2] - self.beg))
    ELSE Slice(self.str, item[1], item[2])

\* Selection.content(text): the substring of each interval, in order.
SelectionContent(self, sel) ==
    [i \in 1..Len(sel) |-> GetItemInterval(self, sel[i])]

\* The errors the text methods raise
StaleTransformation == "AssertionError: Transformation applied on wrong text"
InvalidTransformation == "transformation.validate raised"
ListIndexError == "IndexError: list index out of range"
StringIndexError == "IndexError: string index out of range"
OutOfRange == "IndexError: item out of range"
\* Interval(begin, end) with begin > end (fate/selection.py, not among the sources)
IntervalError == "Interval: begin > end"

\* What a call produced: the value it returned, or the error it raised.
\* consumed counts the replacement strings taken before the call ended.
Returned(value, consumed) ==
    [status |-> "ok", returns |-> "text", value |-> value, consumed |-> consumed]

ReturnedNone(consumed) ==
    [status |-> "ok", returns |-> "None", value |-> <<>>, consumed |-> consumed]

Raised(error, consumed) ==
    [status |-> error, returns |-> "nothing", value |-> <<>>, consumed |-> consumed]

\* The walk of StringText.transform without line 57 (count += 1)
RECURSIVE WalkNoCount(_, _, _, _, _)
WalkNoCount(partition_content, replacements, i, count, result) ==
    IF i > Len(partition_content)
    THEN [status |-> "ok", result |-> result, count |-> count]
    ELSE IF partition_content[i].in_selection
         THEN IF count >= Len(replacements)
              THEN [status |-> ListIndexError, result |-> result, count |-> count]
              ELSE WalkNoCount(partition_content, replacements, i + 1, count,
                               Append(result, replacements[count + 1]))
         ELSE WalkNoCount(partition_content, replacements, i + 1, count,
                          Append(result, partition_content[i].string))

\* StringText.transform, lines 52-59: the walk over the partition's runs
RECURSIVE Walk(_, _, _, _, _)
Walk(partition_content, replacements, i, count, result) ==
    IF i > Len(partition_content)
    THEN [status |-> "ok", result |-> result, count |-> count]
    ELSE IF partition_content[i].in_selection
         THEN IF count >= Len(replacements)
              THEN \* replacements[count] raises IndexError
                   [status |-> ListIndexError, result |-> result, count |-> count]
              ELSE Walk(partition_content, replacements, i + 1, count + 1,
                        Append(result, replacements[count + 1]))
         ELSE Walk(partition_content, replacements, i + 1, count,
                   Append(result, partition_content[i].string))

\* StringText.transform with the assert of line 43 moved behind the walk
StringTextTransformLateCheck(self, transformation) ==
    LET partition == Partition(Len(self.str), transformation.selection)
        partition_content ==
            [i \in 1..Len(partition) |->
                [in_selection |-> partition[i].in_selection,
                 string |-> GetItemInterval(self, partition[i].interval)]]
        walk == Walk(partition_content, transformation.replacements, 1, 0, <<>>)
    IN IF ~Partitions(Len(self.str), transformation.selection)
       THEN Raised(IntervalError, 0)
       ELSE IF walk.status # "ok"
       THEN Raised(walk.status, walk.count)
       ELSE IF SelectionContent(self, transformation.selection)
                   # transformation.original_content
                \/ ~transformation.valid
            THEN Raised(StaleTransformation, walk.count)
            ELSE Returned(Concat(walk.result), walk.count)

StringTextTransform(self, transformation) ==
    LET oldselection == transformation.selection
        content == SelectionContent(self, transformation.selection)
        original_content == transformation.original_content
        replacements == transformation.replacements
    IN IF content # original_content
       THEN Raised(StaleTransformation, 0)        \* the assert of line 43
       ELSE IF ~transformation.valid
            THEN Raised(InvalidTransformation, 0) \* transformation.validate(self)
            ELSE IF ~Partitions(Len(self.str), oldselection)
            THEN Raised(IntervalError, 0)         \* oldselection.partition(self)
            ELSE LET partition == Partition(Len(self.str), oldselection)
                     partition_content ==
                         [i \in 1..Len(partition) |->
                             [in_selection |-> partition[i].in_selection,
                              string |-> GetItemInterval(self, partition[i].interval)]]
                     walk == Walk(partition_content, replacements, 1, 0, <<>>)
                 IN IF walk.status = "ok"
                    THEN Returned(Concat(walk.result), walk.count)
                    ELSE Raised(walk.status, walk.count)

-----------------------------------------------------------------------------
(* fate/text.py: PartialText *)

\* PartialText.__getitem__ for an int
PartialGetItemInt(self, item) ==
    IF ~PartialContainsInt(self, item)
    THEN Raised(OutOfRange, 0)
    ELSE LET index == item - self.beg      \* str.__getitem__(index)
         IN IF index < Len(self.str)
            THEN Returned(<<self.str[index + 1]>>, 0)
            ELSE Raised(StringIndexError, 0)

\* PartialText.__getitem__ for an Interval
PartialGetItemInterval(self, item, failfast) ==
    IF failfast /\ ~PartialContainsInterval(self, item)
    THEN Raised(OutOfRange, 0)
    ELSE Returned(GetItemInterval(self, item), 0)

PartialTextTransform(self, transformation) ==
    IF \E i \in 1..Len(transformation.selection) :
            ~PartialContainsInterval(self, transformation.selection[i])
    THEN Raised(OutOfRange, 0)
    ELSE LET base == StringTextTransform(self, transformation)
         IN IF base.status = "ok"
            THEN ReturnedNone(base.consumed)   \* line 114 drops the result
            ELSE base

-----------------------------------------------------------------------------
(* Transformations / operations (fate/operation.py, not among the sources) *)

\* The selection the replacements occupy in the transformed text: every
\* interval keeps its distance to the one before it and gets the length of
\* its replacement.
RECURSIVE NewSelection(_, _, _)
NewSelection(sel, replacements, i) ==
    IF i = 0 THEN <<>>
    ELSE LET before == NewSelection(sel, replacements, i - 1)
             beg == IF i = 1 THEN sel[1][1]
                    ELSE before[i - 1][2] + sel[i][1] - sel[i - 1][2]
         IN Append(before, Interval(beg, beg + Len(replacements[i])))

\* The transformation that replaces content by replacements at selection,
\* constructed on a text holding content there.
Operation(selection, content, replacements, valid) ==
    [selection |-> selection, original_content |-> content,
     replacements |-> replacements, valid |-> valid]

\* operation.inverse(): puts the old content back where the new content is.
Inverse(operation) ==
    Operation(NewSelection(operation.selection, operation.replacements,
                           Len(operation.selection)),
              operation.replacements, operation.original_content, TRUE)

-----------------------------------------------------------------------------
(* session.py: Session *)

\* Session.apply without line 45 (count += 1)
RECURSIVE SessionReplaceNoCount(_, _, _, _, _)
SessionReplaceNoCount(partitioned, content, new_content, i, count) ==
    IF i > Len(partitioned)
    THEN [status |-> "ok", content |-> content]
    ELSE IF partitioned[i].in_selection
         THEN IF count >= Len(new_content)
              THEN [status |-> ListIndexError, content |-> content]
              ELSE SessionReplaceNoCount(partitioned,
                                         [content EXCEPT ![i] = new_content[count + 1]],
                                         new_content, i + 1, count)
         ELSE SessionReplaceNoCount(partitioned, content, new_content, i + 1, count)

\* Session.apply, lines 42-45: content[i] = operation.new_content[count]
RECURSIVE SessionReplace(_, _, _, _, _)
SessionReplace(partitioned, content, new_content, i, count) ==
    IF i > Len(partitioned)
    THEN [status |-> "ok", content |-> content]
    ELSE IF partitioned[i].in_selection   \* interval in operation.old_selection:
                                          \* the selected runs of the partition
         THEN IF count >= Len(new_content)   \* new_content[count] raises
              THEN [status |-> ListIndexError, content |-> content]
              ELSE SessionReplace(partitioned,
                                  [content EXCEPT ![i] = new_content[count + 1]],
                                  new_content, i + 1, count + 1)
         ELSE SessionReplace(partitioned, content, new_content, i + 1, count)

\* Session.content(selection)
SessionContent(session_text, partitioned) ==
    [i \in 1..Len(partitioned) |->
        Slice(session_text, partitioned[i].interval[1], partitioned[i].interval[2])]

\* Session.apply: the text it assigns to self.text, or the error it raises
SessionApplyText(session_text, operation) ==
    LET partitioned == Partition(Len(session_text), operation.selection)
        content == SessionContent(session_text, partitioned)
        replaced == SessionReplace(partitioned, content, operation.replacements, 1, 0)
    IN IF replaced.status = "ok"
       THEN [status |-> "ok", text |-> Concat(replaced.content)]
       ELSE [status |-> replaced.status, text |-> session_text]

-----------------------------------------------------------------------------
(* Wrapped lines (fate/navigation.py, not among the sources) *)

\* The first position from start on that holds a newline, or -1
RECURSIVE FindNewline(_, _)
FindNewline(t, start) ==
    IF start >= Len(t) THEN -1
    ELSE IF t[start + 1] = "\n" THEN start
    ELSE FindNewline(t, start + 1)

\* The lengths of the lines of str.splitlines()
RECURSIVE LineLengths(_, _)
LineLengths(t, start) ==
    IF start >= Len(t) THEN <<>>
    ELSE LET eol == FindNewline(t, start)
         IN IF eol = -1 THEN <<Len(t) - start>>
            ELSE <<eol - start>> \o LineLengths(t, eol + 1)

RECURSIVE Sum(_)
Sum(numbers) == IF numbers = <<>> THEN 0 ELSE Head(numbers) + Sum(Tail(numbers))

\* count_wrapped_lines: what text_as_lines asserts its number of lines to be,
\* ceil(len(line) / width) for each line.
CountWrappedLines(t, width) ==
    LET lengths == LineLengths(t, 0)
    IN Sum([i \in 1..Len(lengths) |-> (lengths[i] + width - 1) \div width])

\* next_beg_of_wrapped_line: the begin of the wrapped line after the one that
\* begins at start, or start when there is none.
NextBegOfWrappedLine(t, width, start) ==
    LET eol == FindNewline(t, start)
    IN IF eol # -1 /\ eol - start <= width THEN eol + 1
       ELSE IF start + width < Len(t) THEN start + width
       ELSE start

\* move_n_wrapped_lines_down: the begin of the wrapped line n lines below
RECURSIVE MoveNWrappedLinesDown(_, _, _, _)
MoveNWrappedLinesDown(t, width, start, n) ==
    IF n <= 0 THEN start
    ELSE MoveNWrappedLinesDown(t, width, NextBegOfWrappedLine(t, width, start), n - 1)

-----------------------------------------------------------------------------
(* fate/textview.py: the single-pass substitution merge *)

Substitution(interval, replacement) ==
    [interval |-> interval, replacement |-> replacement]

\* The order of Python's tuples on intervals
IntervalLess(x, y) == x[1] < y[1] \/ (x[1] = y[1] /\ x[2] < y[2])

\* bisect_left(substitutions, (Interval(position, position), '')) on a sorted
\* list: the number of substitutions before the key; no replacement is less
\* than ''.
BisectLeft(substitutions, position) ==
    Cardinality({i \in 1..Len(substitutions) :
                    IntervalLess(substitutions[i].interval, Interval(position, position))})

\* conceal.generate_local_substitutions: the document has no local concealment.
LocalSubstitutions(d, obeg, o_sample_length) == <<>>

\* substitutions.sort(): no two substitutions of a document share an interval,
\* so the order of the intervals decides.
RECURSIVE SortSubstitutions(_)
SortSubstitutions(substitutions) ==
    IF substitutions = <<>> THEN <<>>
    ELSE LET least == CHOOSE i \in 1..Len(substitutions) :
                        \A j \in 1..Len(substitutions) :
                            ~IntervalLess(substitutions[j].interval,
                                          substitutions[i].interval)
         IN <<substitutions[least]>>
               \o SortSubstitutions(SubSeq(substitutions, 1, least - 1)
                                       \o SubSeq(substitutions, least + 1,
                                                 Len(substitutions)))

\* range(from, to) and count * [value] of Python
PyRange(from, to) == [i \in 1..(to - from) |-> from + i - 1]
Repeat(count, value) == [i \in 1..count |-> value]

\* The while loop of lines 369-401.  hang: an iteration that changes nothing.
RECURSIVE MergeLoop(_, _, _, _, _)
MergeLoop(otext, substitutions, obeg, o_sample_length, s) ==
    IF ~(s.opos < obeg + o_sample_length)
    THEN s
    ELSE IF s.subst_index >= Len(substitutions)
    THEN \* Add remaining non-concealed text, and break
         LET olength == Min(o_sample_length - (s.opos - obeg),
                            Len(otext) - (s.opos - obeg))
         IN [s EXCEPT
                !.vpos_to_opos = @ \o PyRange(s.opos, s.opos + olength),
                !.opos_to_vpos = @ \o PyRange(s.vpos, s.vpos + olength),
                !.vtext = @ \o Slice(otext, s.opos, s.opos + olength),
                !.opos = @ + olength,
                !.vpos = @ + olength]
    ELSE LET sbeg == substitutions[s.subst_index + 1].interval[1]
             send == substitutions[s.subst_index + 1].interval[2]
             replacement == substitutions[s.subst_index + 1].replacement
         IN IF sbeg > s.opos
            THEN \* Add non-concealed text
                 LET olength == Min(sbeg - s.opos, o_sample_length - s.vpos)
                 IN IF olength = 0
                    THEN [s EXCEPT !.status = "hang"]
                    ELSE MergeLoop(otext, substitutions, obeg, o_sample_length,
                            [s EXCEPT
                                !.vpos_to_opos = @ \o PyRange(s.opos, s.opos + olength),
                                !.opos_to_vpos = @ \o PyRange(s.vpos, s.vpos + olength),
                                !.vtext = @ \o Slice(otext, s.opos, s.opos + olength),
                                !.vpos = @ + olength,
                                !.opos = @ + olength])
            ELSE \* Add concealed text
                 LET vlength == Len(replacement)
                     olength == send - sbeg
                 IN MergeLoop(otext, substitutions, obeg, o_sample_length,
                        [s EXCEPT
                            !.vpos_to_opos = @ \o Repeat(vlength, s.opos),
                            !.opos_to_vpos = @ \o Repeat(olength, s.vpos),
                            !.vtext = @ \o replacement,
                            !.vpos = @ + vlength,
                            !.opos = @ + olength,
                            !.subst_index = @ + 1])

\* Lines 350-358: the global substitutions whose interval begins in the range
\* and the local ones, sorted
SubstitutionsIn(d, obeg, o_sample_length) ==
    LET first_global_subst == BisectLeft(d.global_substitutions, obeg)
        last_global_subst == BisectLeft(d.global_substitutions, obeg + o_sample_length)
    IN SortSubstitutions(LocalSubstitutions(d, obeg, o_sample_length)
                            \o SubSeq(d.global_substitutions,
                                      first_global_subst + 1, last_global_subst))

\* Lines 403-414: the sentinels are appended to what the loop has merged.
WithSentinels(merged, o_sample_length) ==
    [status |-> merged.status,
     vtext |-> merged.vtext,
     opos_to_vpos |-> Append(merged.opos_to_vpos, Len(merged.vtext)),
     vpos_to_opos |-> Append(merged.vpos_to_opos, o_sample_length)]

\* TextView._compute_text_from_orig_interval
ComputeTextFromOrigInterval(d, obeg, o_sample_length) ==
    WithSentinels(
        MergeLoop(d.text, SubstitutionsIn(d, obeg, o_sample_length), obeg,
                  o_sample_length,
                  [status |-> "ok", vtext |-> <<>>, vpos |-> 0, opos |-> obeg,
                   vpos_to_opos |-> <<>>, opos_to_vpos |-> <<>>, subst_index |-> 0]),
        o_sample_length)

-----------------------------------------------------------------------------
(* fate/textview.py: the screen view *)

ViewResult(status, viewtext, origpos_to_viewpos, viewpos_to_origpos, sample) ==
    [status |-> status, text |-> viewtext,
     origpos_to_viewpos |-> origpos_to_viewpos,
     viewpos_to_origpos |-> viewpos_to_origpos,
     o_sample_length |-> sample.o_sample_length, vtext |-> sample.vtext,
     required_length |-> sample.required_length,
     selection |-> <<>>, highlighting |-> <<>>, line |-> 0]

NoSample == [o_sample_length |-> 0, vtext |-> <<>>, required_length |-> 0]

\* The construction of a view ends with an error raised at a line of textview.py.
RaisedAt(status, line, sample) ==
    [ViewResult(status, <<>>, <<>>, <<>>, sample) EXCEPT !.line = line]

\* The loop of lines 301-305: the sample is doubled while it wraps into fewer
\* than height lines and more text remains.
RECURSIVE SampleLoop(_, _, _, _, _)
RECURSIVE Doubled(_, _, _, _, _, _)
Doubled(d, obeg, o_sample_length, width, height, sample) ==
    IF sample.status = "ok"
       /\ CountWrappedLines(sample.vtext, width) < height
       /\ obeg + o_sample_length < Len(d.text)
    THEN SampleLoop(d, obeg, o_sample_length * 2, width, height)
    ELSE [o_sample_length |-> o_sample_length, sample |-> sample]

SampleLoop(d, obeg, o_sample_length, width, height) ==
    Doubled(d, obeg, o_sample_length, width, height,
            ComputeTextFromOrigInterval(d, obeg, o_sample_length))

\* Lines 307-316: the length of the sampled view text up to the end of the
\* last of its height wrapped lines
RequiredLength(vtext, width, height) ==
    LET beg_last_line == MoveNWrappedLinesDown(vtext, width, 0, height - 1)
        next_beg == NextBegOfWrappedLine(vtext, width, beg_last_line)
    IN IF next_beg = beg_last_line THEN Len(vtext) ELSE next_beg

\* Lines 318-337: the sentinels are appended and the text and the forward
\* mapping are cut to the required length.
Truncated(first, o_sample_length, sampled, required_length) ==
    LET vtext == sampled.vtext
        viewtext == Slice(vtext, 0, required_length)
        origpos_to_viewpos == Slice(Append(sampled.opos_to_vpos, Len(vtext)), 0,
                                    required_length + 1)
        viewpos_to_origpos == Append(sampled.vpos_to_opos, o_sample_length)
        sample == [o_sample_length |-> o_sample_length, vtext |-> vtext,
                   required_length |-> required_length]
    IN IF first.status = "hang" \/ sampled.status = "hang"
       THEN ViewResult("hang", <<>>, <<>>, <<>>, NoSample)
       ELSE IF ~(first.opos_to_vpos[1] >= 0)
       THEN RaisedAt("AssertionError", 300, sample)
       ELSE IF ~(required_length > Len(vtext) \div 2)
       THEN RaisedAt("AssertionError", 320, sample)
       ELSE IF Len(viewtext) # required_length
       THEN RaisedAt("AssertionError", 333, sample)
       ELSE IF Len(origpos_to_viewpos) # required_length + 1
       THEN RaisedAt("AssertionError", 334, sample)
       ELSE ViewResult("ok", viewtext, origpos_to_viewpos, viewpos_to_origpos, sample)

\* Lines 294-337, for the first sample and the last
Snapped(first, sampled, width, height) ==
    Truncated(first, sampled.o_sample_length, sampled.sample,
              RequiredLength(sampled.sample.vtext, width, height))

\* TextView._compute_text_from_view_interval
ComputeTextFromViewInterval(d, width, height, offset) ==
    IF Len(d.text) - offset = 0
    THEN ViewResult("ok", <<>>, <<0>>, <<0>>, NoSample)
    ELSE IF Len(d.text) - offset < 0
    THEN RaisedAt("ValueError", 291, NoSample)
    ELSE Snapped(ComputeTextFromOrigInterval(d, offset, 1),
                 SampleLoop(d, offset, 1, width, height), width, height)

\* list[index] of Python: a negative index counts from the end.
PyItem(list, index) ==
    IF 0 <= index /\ index < Len(list) THEN [status |-> "ok", value |-> list[index + 1]]
    ELSE IF index < 0 /\ -index <= Len(list)
         THEN [status |-> "ok", value |-> list[Len(list) + index + 1]]
         ELSE [status |-> "IndexError", value |-> 0]

\* Selection.add (fate/selection.py, not among the sources): the interval is
\* merged with the intervals it overlaps or touches.
SelectionAdd(sel, interval) ==
    LET touching == {i \in 1..Len(sel) :
                        sel[i][1] <= interval[2] /\ interval[1] <= sel[i][2]}
        begs == {sel[i][1] : i \in touching} \cup {interval[1]}
        ends == {sel[i][2] : i \in touching} \cup {interval[2]}
        hull == Interval(CHOOSE x \in begs : \A y \in begs : x <= y,
                         CHOOSE x \in ends : \A y \in ends : x >= y)
        others == {i \in 1..Len(sel) : i \notin touching}
        before == {i \in others : sel[i][2] < hull[1]}
    IN [i \in 1..(Cardinality(others) + 1) |->
            IF i <= Cardinality(before) THEN sel[i]
            ELSE IF i = Cardinality(before) + 1 THEN hull
            ELSE sel[i - 1 + Cardinality(touching)]]

\* The loop of lines 449-462 of TextView._compute_selection
RECURSIVE SelectionLoop(_, _, _, _, _, _, _)
SelectionLoop(selection, i, offset, opos_to_vpos, o_viewbeg, o_viewend, selectionview) ==
    IF i > Len(selection)
    THEN [status |-> "ok", line |-> 0, selection |-> selectionview]
    ELSE LET beg == selection[i][1]
             end == selection[i][2]
         IN IF (beg < o_viewend /\ o_viewbeg < end)
                  \/ (beg = end /\ end = o_viewbeg) \/ (beg = end /\ end = o_viewend)
            THEN LET cbeg == Max(beg, o_viewbeg)
                     cend == Min(o_viewend, end)
                     vbeg == PyItem(opos_to_vpos, cbeg - offset)
                     vend == PyItem(opos_to_vpos, cend - offset)
                 IN IF ~(cbeg <= cend)
                    THEN [status |-> "AssertionError", line |-> 456,
                          selection |-> selectionview]
                    ELSE IF vbeg.status # "ok"
                    THEN [status |-> "IndexError", line |-> 458,
                          selection |-> selectionview]
                    ELSE IF vend.status # "ok"
                    THEN [status |-> "IndexError", line |-> 461,
                          selection |-> selectionview]
                    ELSE IF ~(vbeg.value <= vend.value)    \* Interval(vbeg, vend)
                    THEN [status |-> "AssertionError", line |-> 462,
                          selection |-> selectionview]
                    ELSE SelectionLoop(selection, i + 1, offset, opos_to_vpos,
                                       o_viewbeg, o_viewend,
                                       SelectionAdd(selectionview,
                                                    Interval(vbeg.value, vend.value)))
            ELSE SelectionLoop(selection, i + 1, offset, opos_to_vpos,
                               o_viewbeg, o_viewend, selectionview)

\* TextView._compute_selection with its post condition
ComputeSelection(d, offset, viewtext, origpos_to_viewpos, viewpos_to_origpos) ==
    IF Len(origpos_to_viewpos) # Len(viewtext) + 1
    THEN [status |-> "AssertionError", line |-> 444, selection |-> <<>>]
    ELSE IF viewpos_to_origpos = <<>>
    THEN [status |-> "IndexError", line |-> 445, selection |-> <<>>]
    ELSE LET o_viewbeg == viewpos_to_origpos[1]
             o_viewend == viewpos_to_origpos[Len(viewpos_to_origpos)]
             looped == SelectionLoop(d.selection, 1, offset, origpos_to_viewpos,
                                     o_viewbeg, o_viewend, <<>>)
         IN IF looped.status = "ok"
               /\ \E i \in 1..Len(looped.selection) :
                     ~(/\ 0 <= looped.selection[i][1]
                       /\ looped.selection[i][1] <= looped.selection[i][2]
                       /\ looped.selection[i][2] <= Len(viewtext))
            THEN [status |-> "AssertionError", line |-> 165,
                  selection |-> looped.selection]
            ELSE looped

\* _compute_highlighting without the reverse mapping: the tag of view position
\* i is looked up at original position i.
ComputeHighlightingAtViewPosition(d, viewtext, viewpos_to_origpos) ==
    [status |-> "ok", line |-> 0,
     highlighting |->
        [i \in 1..Len(viewtext) |->
            IF i - 1 \in DOMAIN d.highlighting THEN d.highlighting[i - 1] ELSE ""]]

\* TextView._compute_highlighting
ComputeHighlighting(d, viewtext, viewpos_to_origpos) ==
    IF Len(viewtext) > Len(viewpos_to_origpos)
    THEN [status |-> "IndexError", line |-> 427, highlighting |-> <<>>]
    ELSE [status |-> "ok", line |-> 0,
          highlighting |->
             [i \in 1..Len(viewtext) |->
                 IF viewpos_to_origpos[i] \in DOMAIN d.highlighting
                 THEN d.highlighting[viewpos_to_origpos[i]]
                 ELSE ""]]

\* The selection and the highlighting of a view whose text is computed
Projected(d, offset, computed) ==
    IF computed.status # "ok" THEN computed
    ELSE LET selection == ComputeSelection(d, offset, computed.text,
                                           computed.origpos_to_viewpos,
                                           computed.viewpos_to_origpos)
             highlighting == ComputeHighlighting(d, computed.text,
                                                 computed.viewpos_to_origpos)
         IN IF selection.status # "ok"
            THEN [computed EXCEPT !.status = selection.status,
                                  !.line = selection.line]
            ELSE IF highlighting.status # "ok"
            THEN [computed EXCEPT !.status = highlighting.status,
                                  !.line = highlighting.line]
            ELSE [computed EXCEPT !.selection = selection.selection,
                                  !.highlighting = highlighting.highlighting]

\* TextView.for_screen
ForScreenView(d, width, height, offset) ==
    IF width <= 0
    THEN RaisedAt("ValueError", 224, NoSample)
    ELSE IF height <= 0
    THEN RaisedAt("ValueError", 226, NoSample)
    ELSE IF offset < 0 \/ offset > Len(d.text)
    THEN RaisedAt("ValueError", 228, NoSample)
    ELSE Projected(d, offset, ComputeTextFromViewInterval(d, width, height, offset))

\* TextView.for_entire_text
ForEntireTextView(d, width) ==
    IF width <= 0
    THEN RaisedAt("ValueError", 246, NoSample)
    ELSE LET whole == ComputeTextFromOrigInterval(d, 0, Len(d.text))
         IN Projected(d, 0,
                ViewResult(whole.status, whole.vtext, whole.opos_to_vpos,
                           whole.vpos_to_opos,
                           [o_sample_length |-> Len(d.text), vtext |-> whole.vtext,
                            required_length |-> Len(whole.vtext)]))

-----------------------------------------------------------------------------
(* The inputs of the text operations *)

NoOperation == Operation(<<>>, <<>>, <<>>, TRUE)
NoLast == [kind |-> "none", operation |-> NoOperation, prior |-> <<>>]
NoOut == [op |-> "none", self |-> StringText(<<>>), transformation |-> NoOperation,
          item |-> Interval(0, 0), failfast |-> FALSE, result |-> ReturnedNone(0)]
NoDoc == [text |-> <<>>, global_substitutions |-> <<>>, selection |-> <<>>,
          highlighting |-> <<>>]
NoView == [op |-> "none", width |-> 0, height |-> 0, offset |-> 0, length |-> 0,
           result |-> ViewResult("ok", <<>>, <<>>, <<>>, NoSample)]

Flip(t) == [i \in 1..Len(t) |-> IF t[i] = "a" THEN "b" ELSE "a"]

\* k replacement strings, one fewer or one more
ReplacementLists(k) ==
    UNION {[1..n -> ReplacementStrings] : n \in Max(0, k - 1)..(k + 1)}

\* The transformations tried on text t: any selection of t; the content
\* recorded on t itself or on another text of the same length (a stale one).
Transformations(t) ==
    UNION {{Operation(sel, content, replacements, valid) :
                content \in {SelectionContent(StringText(u), sel) : u \in {t, Flip(t)}},
                replacements \in ReplacementLists(Len(sel)),
                valid \in BOOLEAN} :
           sel \in Selections(Len(t))}

-----------------------------------------------------------------------------
(* The editing session *)

InitSession ==
    /\ text \in Texts
    /\ last = NoLast
    /\ out = NoOut
    /\ doc = NoDoc
    /\ view = NoView

\* An operation constructed on the session's text is applied to it.
SessionApply(selection, new_content) ==
    LET operation == Operation(selection, SelectionContent(StringText(text), selection),
                               new_content, TRUE)
        applied == SessionApplyText(text, operation)
    IN /\ last.kind = "none"
       /\ text' = applied.text
       /\ last' = [kind |-> IF applied.status = "ok" THEN "applied" ELSE "failed",
                   operation |-> operation, prior |-> text]
       /\ UNCHANGED <<out, viewVars>>

\* Session.undo of the operation applied last
SessionUndo ==
    LET applied == SessionApplyText(text, Inverse(last.operation))
    IN /\ last.kind = "applied"
       /\ text' = applied.text
       /\ last' = [last EXCEPT !.kind = IF applied.status = "ok" THEN "undone"
                                         ELSE "undo failed"]
       /\ UNCHANGED <<out, viewVars>>

NextSession ==
    \/ \E selection \in Selections(Len(text)) :
         \E new_content \in UNION {[1..n -> ReplacementStrings] :
                                     n \in Max(0, Len(selection) - 1)..Len(selection)} :
            SessionApply(selection, new_content)
    \/ SessionUndo

SpecSession == InitSession /\ [][NextSession]_vars

-----------------------------------------------------------------------------
(* Calls of the Text methods on a text *)

InitText ==
    /\ text \in Texts
    /\ last = NoLast
    /\ out = NoOut
    /\ doc = NoDoc
    /\ view = NoView

Call(op, self, transformation, item, failfast, result) ==
    /\ out' = [op |-> op, self |-> self, transformation |-> transformation,
               item |-> item, failfast |-> failfast, result |-> result]
    /\ UNCHANGED <<text, last, viewVars>>

\* text.transform(transformation)
Transform(transformation) ==
    Call("transform", StringText(text), transformation, Interval(0, 0), FALSE,
         StringTextTransform(StringText(text), transformation))

\* PartialText(text, beg, end).transform(transformation)
PartialTransform(beg, end, transformation) ==
    Call("partial transform", PartialText(text, beg, end), transformation,
         Interval(0, 0), FALSE,
         PartialTextTransform(PartialText(text, beg, end), transformation))

\* PartialText(text, beg, end)[position]
PartialGetInt(beg, end, position) ==
    Call("partial getitem int", PartialText(text, beg, end), NoOperation,
         Interval(position, position), FALSE,
         PartialGetItemInt(PartialText(text, beg, end), position))

\* PartialText(text, beg, end)[interval], or __getitem__(interval, failfast)
PartialGetInterval(beg, end, interval, failfast) ==
    Call("partial getitem interval", PartialText(text, beg, end), NoOperation,
         interval, failfast,
         PartialGetItemInterval(PartialText(text, beg, end), interval, failfast))

\* One call is made on each text.
NextText ==
    \/ /\ out.op = "none"
       /\ \E transformation \in Transformations(text) : Transform(transformation)
    \/ /\ out.op = "none"
       /\ \E window \in Intervals(Len(text)) :
            \E transformation \in Transformations(text) :
               PartialTransform(window[1], window[2], transformation)
    \/ /\ out.op = "none"
       /\ \E window \in Intervals(Len(text)) :
            \E position \in 0..(MaxLen + 1) :
               PartialGetInt(window[1], window[2], position)
    \/ /\ out.op = "none"
       /\ \E window \in Intervals(Len(text)) :
            \E interval \in Intervals(MaxLen + 1) :
               \E failfast \in BOOLEAN :
                  PartialGetInterval(window[1], window[2], interval, failfast)

SpecText == InitText /\ [][NextText]_vars

-----------------------------------------------------------------------------
(* Views of a document *)

\* The global substitutions of a document are sorted, and no two overlap.
IsSubstitutionList(substitutions) ==
    \A i \in 1..(Len(substitutions) - 1) :
        /\ substitutions[i].interval[2] <= substitutions[i + 1].interval[1]
        /\ substitutions[i].interval # substitutions[i + 1].interval

\* The lists of at most k substitutions in a text of length n that begin at
\* position from or later and that may not begin with the interval last
RECURSIVE SubstitutionListsFrom(_, _, _, _)
SubstitutionListsFrom(n, from, last_interval, k) ==
    IF k = 0 THEN {<<>>}
    ELSE {<<>>} \cup
         UNION {{<<Substitution(interval, replacement)>> \o rest :
                    replacement \in ConcealStrings,
                    rest \in SubstitutionListsFrom(n, interval[2], interval, k - 1)} :
                interval \in {iv \in Intervals(n) :
                                 iv[1] >= from /\ iv # last_interval}}

SubstitutionLists(n) ==
    {substitutions \in SubstitutionListsFrom(n, 0, <<>>, MaxSubs) :
        IsSubstitutionList(substitutions)}

\* The documents views are built for; their selection is empty and they have
\* no highlighting.
Docs ==
    UNION {{[text |-> t, global_substitutions |-> substitutions,
             selection |-> <<>>, highlighting |-> <<>>] :
                substitutions \in SubstitutionLists(Len(t))} :
           t \in SeqsUpTo(DocChars, MaxDocLen)}

\* The example of the specification: 'abcdef' with 'bc' shown as 'X',
\* on a screen of width 10 and height 1 at offset 0
ExampleDoc ==
    [text |-> <<"a", "b", "c", "d", "e", "f">>,
     global_substitutions |-> <<Substitution(Interval(1, 3), <<"X">>)>>,
     selection |-> <<>>, highlighting |-> <<>>]

ExampleScreen == [width |-> 10, height |-> 1, offset |-> 0]

InitView ==
    /\ doc \in Docs \cup {ExampleDoc}
    /\ view = NoView
    /\ text = <<>>
    /\ last = NoLast
    /\ out = NoOut

Built(op, width, height, offset, length, result) ==
    /\ view' = [op |-> op, width |-> width, height |-> height, offset |-> offset,
                length |-> length, result |-> result]
    /\ UNCHANGED <<doc, textVars>>

\* TextView.for_screen(doc, width, height, offset)
ForScreen(width, height, offset) ==
    Built("for_screen", width, height, offset, 0,
          ForScreenView(doc, width, height, offset))

\* TextView.for_entire_text(doc, width)
ForEntireText(width) ==
    Built("for_entire_text", width, 0, 0, Len(doc.text), ForEntireTextView(doc, width))

\* self._compute_text_from_orig_interval(obeg, o_sample_length)
OrigInterval(obeg, o_sample_length) ==
    LET computed == ComputeTextFromOrigInterval(doc, obeg, o_sample_length)
    IN Built("orig_interval", 0, 0, obeg, o_sample_length,
             ViewResult(computed.status, computed.vtext, computed.opos_to_vpos,
                        computed.vpos_to_opos,
                        [o_sample_length |-> o_sample_length, vtext |-> computed.vtext,
                         required_length |-> Len(computed.vtext)]))

\* Arguments for_screen rejects: a width, a height or an offset out of range
InvalidScreens(d) ==
    {[width |-> 0, height |-> 1, offset |-> 0],
     [width |-> 1, height |-> 0, offset |-> 0],
     [width |-> 1, height |-> 1, offset |-> -1],
     [width |-> 1, height |-> 1, offset |-> Len(d.text) + 1]}

\* The screens a view of document d is built for
Screens(d) ==
    {[width |-> width, height |-> height, offset |-> offset] :
        width \in 1..MaxWidth, height \in 1..MaxHeight, offset \in 0..Len(d.text)}
    \cup InvalidScreens(d)
    \cup (IF d = ExampleDoc THEN {ExampleScreen} ELSE {})

\* One view is built for each document.
NextView ==
    \/ /\ view.op = "none"
       /\ \E screen \in Screens(doc) :
            ForScreen(screen.width, screen.height, screen.offset)
    \/ /\ view.op = "none"
       /\ \E width \in 0..MaxWidth : ForEntireText(width)
    \/ /\ view.op = "none"
       /\ \E obeg \in 0..Len(doc.text) :
            \E o_sample_length \in 1..(Len(doc.text) - obeg + 1) :
               OrigInterval(obeg, o_sample_length)

SpecView == InitView /\ [][NextView]_vars

-----------------------------------------------------------------------------
(* Views of a document with a selection, and of one with highlighting *)

\* The documents of at most n characters with a selection: doc.selection is
\* a Selection of intervals of the text.
SelectedDocs(n) ==
    UNION {{[text |-> t, global_substitutions |-> substitutions,
             selection |-> selection, highlighting |-> <<>>] :
                substitutions \in SubstitutionLists(Len(t)),
                selection \in Selections(Len(t))} :
           t \in SeqsUpTo(DocChars, n)}

\* The example document with an empty interval selected inside the text, (2,2),
\* and with one selected where the text begins, (0,0)
ExampleSelectedDocs ==
    {[ExampleDoc EXCEPT !.selection = <<Interval(p, p)>>] : p \in {0, 2}}

\* doc.highlighting is a sparse table from positions of the text to tags.
Highlightings == {1 :> "kw", 0 :> "id" @@ 2 :> "kw"}

\* The documents of at most n characters with highlighting
HighlightedDocs(n) ==
    UNION {{[text |-> t, global_substitutions |-> substitutions,
             selection |-> <<>>, highlighting |-> highlighting] :
                substitutions \in SubstitutionLists(Len(t)),
                highlighting \in Highlightings} :
           t \in SeqsUpTo(DocChars, n)}

\* The example document with the highlighting {1: 'kw'}
ExampleHighlightedDoc == [ExampleDoc EXCEPT !.highlighting = 1 :> "kw"]

\* A screen that shows the whole example
ExampleTallScreen == [width |-> 10, height |-> 2, offset |-> 0]

InitSelection ==
    /\ doc \in SelectedDocs(MaxDocLen) \cup ExampleSelectedDocs
    /\ view = NoView
    /\ text = <<>>
    /\ last = NoLast
    /\ out = NoOut

InitHighlighting ==
    /\ doc \in HighlightedDocs(MaxDocLen) \cup {ExampleHighlightedDoc}
    /\ view = NoView
    /\ text = <<>>
    /\ last = NoLast
    /\ out = NoOut

\* The screens for_screen accepts for document d
ValidScreens(d) ==
    {[width |-> width, height |-> height, offset |-> offset] :
        width \in 1..MaxWidth, height \in 1..MaxHeight, offset \in 0..Len(d.text)}
    \cup (IF d.text = ExampleDoc.text THEN {ExampleScreen, ExampleTallScreen} ELSE {})

\* One view, with its selection and its highlighting, is built for each document.
NextProjection ==
    \/ /\ view.op = "none"
       /\ \E screen \in ValidScreens(doc) :
            ForScreen(screen.width, screen.height, screen.offset)
    \/ /\ view.op = "none"
       /\ \E width \in 1..MaxWidth : ForEntireText(width)

SpecSelection == InitSelection /\ [][NextProjection]_vars

SpecHighlighting == InitHighlighting /\ [][NextProjection]_vars

-----------------------------------------------------------------------------
(* The loops of a screen view, one iteration at a time *)

\* Lines 360-366: the cursors of the merge loop before its first iteration
MergeStart(obeg) ==
    [status |-> "ok", vtext |-> <<>>, vpos |-> 0, opos |-> obeg,
     vpos_to_opos |-> <<>>, opos_to_vpos |-> <<>>, subst_index |-> 0]

\* Line 368: the condition of the merge loop
MergeGoesOn(obeg, o_sample_length, s) == s.opos < obeg + o_sample_length

\* Lines 369-401: one iteration of the merge loop
MergeIteration(otext, substitutions, obeg, o_sample_length, s) ==
    IF s.subst_index >= Len(substitutions)
    THEN LET olength == Min(o_sample_length - (s.opos - obeg),
                            Len(otext) - (s.opos - obeg))
         IN [s EXCEPT
                !.vpos_to_opos = @ \o PyRange(s.opos, s.opos + olength),
                !.opos_to_vpos = @ \o PyRange(s.vpos, s.vpos + olength),
                !.vtext = @ \o Slice(otext, s.opos, s.opos + olength),
                !.opos = @ + olength,
                !.vpos = @ + olength]
    ELSE LET sbeg == substitutions[s.subst_index + 1].interval[1]
             send == substitutions[s.subst_index + 1].interval[2]
             replacement == substitutions[s.subst_index + 1].replacement
         IN IF sbeg > s.opos
            THEN LET olength == Min(sbeg - s.opos, o_sample_length - s.vpos)
                 IN [s EXCEPT
                        !.vpos_to_opos = @ \o PyRange(s.opos, s.opos + olength),
                        !.opos_to_vpos = @ \o PyRange(s.vpos, s.vpos + olength),
                        !.vtext = @ \o Slice(otext, s.opos, s.opos + olength),
                        !.vpos = @ + olength,
                        !.opos = @ + olength]
            ELSE LET vlength == Len(replacement)
                     olength == send - sbeg
                 IN [s EXCEPT
                        !.vpos_to_opos = @ \o Repeat(vlength, s.opos),
                        !.opos_to_vpos = @ \o Repeat(olength, s.vpos),
                        !.vtext = @ \o replacement,
                        !.vpos = @ + vlength,
                        !.opos = @ + olength,
                        !.subst_index = @ + 1]

\* A call of _compute_text_from_orig_interval(offset, o_sample_length) in
\* progress inside for_screen: the cursors s of its merge loop, whether the
\* loop has been left, the number of its iterations modulo 2, and the first
\* sample, of length 1, once there is one.
Sampling(width, height, offset, o_sample_length, first) ==
    [op |-> "sampling", width |-> width, height |-> height, offset |-> offset,
     length |-> o_sample_length,
     result |-> [s |-> MergeStart(offset), merged |-> FALSE, iterations |-> 0,
                 first |-> first]]

\* The value of the first sample before the first merge loop has been left
NoFirstSample(obeg) == WithSentinels(MergeStart(obeg), 1)

\* The sample the merge loop has produced, with its sentinels
Sample == WithSentinels(view.result.s, view.length)

FirstSample == IF view.length = 1 THEN Sample ELSE view.result.first

InitSampling ==
    /\ doc \in Docs
    /\ view = NoView
    /\ text = <<>>
    /\ last = NoLast
    /\ out = NoOut

\* TextView.for_screen(doc, width, height, offset) up to the first sample; a
\* view of an empty remainder is returned without sampling (line 289).
CallForScreen(width, height, offset) ==
    /\ view.op = "none"
    /\ IF Len(doc.text) - offset = 0
       THEN ForScreen(width, height, offset)
       ELSE /\ view' = Sampling(width, height, offset, 1, NoFirstSample(offset))
            /\ UNCHANGED <<doc, textVars>>

\* Lines 368-401: the test of the loop condition and, if it holds, one
\* iteration; the loop is left by the condition or by the break of line 378.
MergeStep ==
    /\ view.op = "sampling"
    /\ ~view.result.merged
    /\ LET substitutions == SubstitutionsIn(doc, view.offset, view.length)
           goes_on == MergeGoesOn(view.offset, view.length, view.result.s)
       IN view' = [view EXCEPT
                      !.result.s =
                          IF goes_on
                          THEN MergeIteration(doc.text, substitutions, view.offset,
                                              view.length, view.result.s)
                          ELSE @,
                      !.result.merged =
                          ~goes_on \/ view.result.s.subst_index >= Len(substitutions),
                      !.result.iterations = IF goes_on THEN (@ + 1) % 2 ELSE @]
    /\ UNCHANGED <<doc, textVars>>

\* Lines 300-302: the first sample passes the assertion, and the view text
\* has too few lines while the document has more text.
SamplesMore ==
    /\ FirstSample.opos_to_vpos[1] >= 0
    /\ CountWrappedLines(Sample.vtext, view.width) < view.height
    /\ view.offset + view.length < Len(doc.text)

\* Lines 303-305: the sample length is doubled and the text sampled again.
Resample ==
    /\ view.op = "sampling"
    /\ view.result.merged
    /\ SamplesMore
    /\ view' = Sampling(view.width, view.height, view.offset, view.length * 2,
                        FirstSample)
    /\ UNCHANGED <<doc, textVars>>

\* Lines 307-337 and 238-241: the view is cut to the required length, its
\* selection and highlighting are computed, and for_screen returns or raises.
ReturnScreen ==
    /\ view.op = "sampling"
    /\ view.result.merged
    /\ ~SamplesMore
    /\ Built("for_screen", view.width, view.height, view.offset, 0,
             Projected(doc, view.offset,
                       Truncated(FirstSample, view.length, Sample,
                                 RequiredLength(Sample.vtext, view.width,
                                                view.height))))

NextSampling ==
    \/ \E screen \in ValidScreens(doc) :
          CallForScreen(screen.width, screen.height, screen.offset)
    \/ MergeStep
    \/ Resample
    \/ ReturnScreen

\* for_screen runs in one thread, which goes on as long as it has a next step.
SpecSampling == InitSampling /\ [][NextSampling]_vars /\ WF_vars(NextSampling)

-----------------------------------------------------------------------------
(* Properties of the text operations *)

\* The text with the intervals of sel replaced by the replacements, spliced
\* in from the last interval to the first.
RECURSIVE Spliced(_, _, _, _)
Spliced(t, sel, replacements, i) ==
    IF i = 0 THEN t
    ELSE Spliced(SubSeq(t, 1, sel[i][1]) \o replacements[i]
                    \o SubSeq(t, sel[i][2] + 1, Len(t)),
                 sel, replacements, i - 1)

\* The runs of a partition lie end to begin from 0 to length.
PartitionCovers(length, sel) ==
    LET partition == Partition(length, sel)
    IN /\ partition[1].interval[1] = 0
       /\ partition[Len(partition)].interval[2] = length
       /\ \A i \in 1..Len(partition) :
            /\ partition[i].interval[1] <= partition[i].interval[2]
            /\ i < Len(partition) =>
                 partition[i].interval[2] = partition[i + 1].interval[1]
       /\ \A i \in 1..Len(sel) :
            /\ partition[2 * i].in_selection
            /\ partition[2 * i].interval = sel[i]

TransformReplacesSelectedRuns ==
    (out.op = "transform" /\ out.result.status = "ok") =>
        /\ out.result.returns = "text"
        /\ out.result.value = Spliced(out.self.str, out.transformation.selection,
                                      out.transformation.replacements,
                                      Len(out.transformation.selection))
        /\ out.result.consumed = Len(out.transformation.selection)
        /\ PartitionCovers(Len(out.self.str), out.transformation.selection)
        /\ text = out.self.str

TransformReplacesWitness ==
    /\ out.op = "transform"
    /\ out.result.status = "ok"
    /\ Len(out.transformation.selection) = 2
    /\ out.transformation.replacements = <<<<>>, <<"X">>>>
    /\ out.transformation.selection[1][1] < out.transformation.selection[1][2]

Stale(call) ==
    SelectionContent(call.self, call.transformation.selection)
        # call.transformation.original_content

\* C3: a transformation whose recorded content differs from the content at
\* its selection fails as stale, returns nothing, has consumed no replacement
\* and leaves the text as it was.
StaleTransformationFails ==
    (out.op = "transform" /\ Stale(out)) =>
        /\ out.result = Raised(StaleTransformation, 0)
        /\ text = out.self.str

StaleTransformationWitness ==
    /\ out.op = "transform"
    /\ Stale(out)
    /\ Len(out.transformation.selection) = 2
    /\ Len(out.transformation.replacements) = 1
    /\ out.transformation.valid

\* C4: a transformation with fewer or with more replacements than selected
\* runs fails.
CountMismatchFails ==
    (out.op = "transform"
        /\ Len(out.transformation.replacements) # Len(out.transformation.selection)) =>
        out.result.status # "ok"

OutsideWindow(call) ==
    \E i \in 1..Len(call.transformation.selection) :
        ~(/\ call.self.beg <= call.transformation.selection[i][1]
          /\ call.transformation.selection[i][2] <= call.self.end)

\* C5: PartialText.transform with an interval outside [beg, end] fails as out
\* of range before the content is validated or a replacement consumed, and
\* the window and its origin are as before.
PartialTransformOutOfRange ==
    (out.op = "partial transform" /\ OutsideWindow(out)) =>
        /\ out.result = Raised(OutOfRange, 0)
        /\ out.self.origin = text
        /\ out.self = PartialText(text, out.self.beg, out.self.end)

PartialTransformOutOfRangeWitness ==
    /\ out.op = "partial transform"
    /\ OutsideWindow(out)
    /\ Stale(out)
    /\ Len(out.transformation.replacements) < Len(out.transformation.selection)
    /\ out.transformation.selection[1][2] > out.self.end
    /\ out.self.beg <= out.transformation.selection[1][1]

\* The selection in the coordinates of the window
Shifted(sel, beg) == [i \in 1..Len(sel) |-> Interval(sel[i][1] - beg, sel[i][2] - beg)]

\* C6: PartialText.transform with every interval inside the window returns a
\* new text: the content of the window with the addressed spans replaced.
PartialTransformReturnsText ==
    (/\ out.op = "partial transform"
     /\ ~OutsideWindow(out)
     /\ ~Stale(out)
     /\ out.transformation.valid
     /\ Len(out.transformation.replacements) = Len(out.transformation.selection)) =>
        /\ out.result.returns = "text"
        /\ out.result.value =
              Spliced(out.self.str, Shifted(out.transformation.selection, out.self.beg),
                      out.transformation.replacements,
                      Len(out.transformation.selection))

\* C7: reading a window by an interval that begins before the window fails
\* as out of range, and so does reading a position outside [beg, end).
PartialReadOutOfRange ==
    /\ (out.op = "partial getitem interval" /\ out.item[1] < out.self.beg) =>
          out.result.status = OutOfRange
    /\ (out.op = "partial getitem int"
          /\ (out.item[1] < out.self.beg \/ out.item[1] >= out.self.end)) =>
          out.result.status \in {OutOfRange, StringIndexError}

-----------------------------------------------------------------------------
(* Properties of the view-mapping engine *)

\* The substitutions of the document that the range [obeg, obeg + n) holds
InRange(substitution, obeg, n) ==
    /\ obeg <= substitution.interval[1]
    /\ substitution.interval[1] < obeg + n
    /\ substitution.interval[2] <= obeg + n

\* How much longer the view is than the original up to the i-th substitution
RECURSIVE Growth(_, _)
Growth(substitutions, i) ==
    IF i = 0 THEN 0
    ELSE Growth(substitutions, i - 1) + Len(substitutions[i].replacement)
            - (substitutions[i].interval[2] - substitutions[i].interval[1])

\* The view position where the replacement of the i-th substitution begins
ReplacementBegin(substitutions, i, obeg) ==
    substitutions[i].interval[1] - obeg + Growth(substitutions, i - 1)

Concealed(substitutions, opos) ==
    {i \in 1..Len(substitutions) :
        substitutions[i].interval[1] <= opos /\ opos < substitutions[i].interval[2]}

\* The view position of an original position: the begin of the replacement
\* of the span it lies in, or its own copy
ForwardOf(substitutions, obeg, opos) ==
    IF Concealed(substitutions, opos) # {}
    THEN ReplacementBegin(substitutions, CHOOSE i \in Concealed(substitutions, opos) : TRUE,
                          obeg)
    ELSE LET before == {i \in 1..Len(substitutions) :
                            substitutions[i].interval[2] <= opos}
         IN opos - obeg + Growth(substitutions, Cardinality(before))

\* The original position of a view position: the begin of the span whose
\* replacement it lies in, or the position it is the copy of
ReverseOf(substitutions, obeg, n, vpos) ==
    LET inside == {i \in 1..Len(substitutions) :
                      /\ ReplacementBegin(substitutions, i, obeg) <= vpos
                      /\ vpos < ReplacementBegin(substitutions, i, obeg)
                                   + Len(substitutions[i].replacement)}
    IN IF inside # {}
       THEN substitutions[CHOOSE i \in inside : TRUE].interval[1]
       ELSE CHOOSE opos \in obeg..(obeg + n) :
                /\ Concealed(substitutions, opos) = {}
                /\ ForwardOf(substitutions, obeg, opos) = vpos

\* C8: the single pass over [obeg, obeg + n) with the substitutions inside it
\* returns the range with every span replaced, a forward mapping of n + 1
\* entries and a reverse mapping of length(view text) + 1 entries, both as
\* described, with the sentinels length(view text) and n.
SinglePassMapping ==
    (/\ view.op = "orig_interval"
     /\ view.offset + view.length <= Len(doc.text)
     /\ \A i \in 1..Len(doc.global_substitutions) :
            InRange(doc.global_substitutions[i], view.offset, view.length)) =>
        LET substitutions == doc.global_substitutions
            obeg == view.offset
            n == view.length
            r == view.result
        IN /\ r.status = "ok"
           /\ r.text = Spliced(SubSeq(doc.text, obeg + 1, obeg + n),
                               [i \in 1..Len(substitutions) |->
                                   Interval(substitutions[i].interval[1] - obeg,
                                            substitutions[i].interval[2] - obeg)],
                               [i \in 1..Len(substitutions) |->
                                   substitutions[i].replacement],
                               Len(substitutions))
           /\ Len(r.origpos_to_viewpos) = n + 1
           /\ \A k \in 0..(n - 1) :
                r.origpos_to_viewpos[k + 1] = ForwardOf(substitutions, obeg, obeg + k)
           /\ r.origpos_to_viewpos[n + 1] = Len(r.text)
           /\ Len(r.viewpos_to_origpos) = Len(r.text) + 1
           /\ \A v \in 0..(Len(r.text) - 1) :
                r.viewpos_to_origpos[v + 1] = ReverseOf(substitutions, obeg, n, v)
           /\ r.viewpos_to_origpos[Len(r.text) + 1] = n

\* The view of everything that remains of the document from offset on
WholeView(d, offset) == ComputeTextFromOrigInterval(d, offset, Len(d.text) - offset)

LineBegins(t, width) == {MoveNWrappedLinesDown(t, width, 0, n) : n \in 0..Len(t)}

\* C9: the text of a screen view ends at the begin of a wrapped line or at
\* the end of the view of the whole document; the example's is 'aXdef'.
ScreenViewEndsAtLineBoundary ==
    (/\ view.op = "for_screen"
     /\ view.result.status = "ok"
     /\ WholeView(doc, view.offset).status = "ok") =>
        /\ \/ Len(view.result.text) = Len(WholeView(doc, view.offset).vtext)
           \/ /\ Len(view.result.text) > 0
              /\ Len(view.result.text)
                    \in LineBegins(WholeView(doc, view.offset).vtext, view.width)
        /\ (doc = ExampleDoc /\ view.width = ExampleScreen.width) =>
              view.result.text = <<"a", "X", "d", "e", "f">>

\* C10: the text and the forward mapping of a screen view are the prefixes of
\* the text and the forward mapping of one single pass over the rest of the
\* document.
SamplingEqualsSinglePass ==
    (/\ view.op = "for_screen"
     /\ view.result.status = "ok"
     /\ view.offset < Len(doc.text)
     /\ WholeView(doc, view.offset).status = "ok") =>
        LET whole == WholeView(doc, view.offset)
        IN /\ Len(view.result.text) <= Len(whole.vtext)
           /\ view.result.text = SubSeq(whole.vtext, 1, Len(view.result.text))
           /\ Len(view.result.origpos_to_viewpos) <= Len(whole.opos_to_vpos)
           /\ view.result.origpos_to_viewpos =
                 SubSeq(whole.opos_to_vpos, 1, Len(view.result.origpos_to_viewpos))

-----------------------------------------------------------------------------
(* Properties of the selection and the highlighting of a view *)

\* A view was returned by for_screen or by for_entire_text.
Returns == view.op \in {"for_screen", "for_entire_text"} /\ view.result.status = "ok"

\* The range of the original text a view was sampled from
OViewBeg == view.offset
OViewEnd == view.offset + view.result.o_sample_length

Overlaps(interval) == interval[1] < OViewEnd /\ OViewBeg < interval[2]

AtEdge(interval) ==
    interval[1] = interval[2] /\ (interval[1] = OViewBeg \/ interval[1] = OViewEnd)

\* Entry opos - offset of the forward mapping of the view
Forward(opos) == view.result.origpos_to_viewpos[opos - view.offset + 1]

IsForwardIndex(opos) == opos - view.offset + 1 \in DOMAIN view.result.origpos_to_viewpos

\* The view selection holds the interval, as such or merged with its neighbours.
Selects(vbeg, vend) ==
    \E j \in 1..Len(view.result.selection) :
        view.result.selection[j][1] <= vbeg /\ vend <= view.result.selection[j][2]

\* C11: in every view returned, for every offset, each interval of the
\* document selection that overlaps the range [offset, offset + sampled
\* length) is in the view selection, clipped to the range and mapped through
\* the forward mapping; if no interval overlaps the range or is empty at one
\* of its edges, the view selection is empty.
OverlappingIntervalsProjected ==
    Returns =>
        /\ \A i \in 1..Len(doc.selection) :
              Overlaps(doc.selection[i]) =>
                 LET beg == Max(doc.selection[i][1], OViewBeg)
                     end == Min(OViewEnd, doc.selection[i][2])
                 IN /\ IsForwardIndex(beg)
                    /\ IsForwardIndex(end)
                    /\ Selects(Forward(beg), Forward(end))
        /\ (\A i \in 1..Len(doc.selection) :
                ~Overlaps(doc.selection[i]) /\ ~AtEdge(doc.selection[i]))
              => view.result.selection = <<>>

Inside(interval) ==
    interval[1] = interval[2] /\ OViewBeg < interval[1] /\ interval[1] < OViewEnd

\* C12: in every view returned, an empty interval of the document selection
\* strictly inside the range of the view is dropped, so that a selection of
\* such intervals alone has an empty view selection, and an empty interval at
\* an edge of the range is retained as an empty interval of the view.
EmptyIntervalPolicy ==
    Returns =>
        /\ (\A i \in 1..Len(doc.selection) : Inside(doc.selection[i]))
              => view.result.selection = <<>>
        /\ \A i \in 1..Len(doc.selection) :
              AtEdge(doc.selection[i]) =>
                 /\ IsForwardIndex(doc.selection[i][1])
                 /\ Selects(Forward(doc.selection[i][1]), Forward(doc.selection[i][1]))

\* The tag of the document at an original position, the empty tag if it has none
TagAt(opos) == IF opos \in DOMAIN doc.highlighting THEN doc.highlighting[opos] ELSE ""

\* C13: building the highlighting of a view never fails; in every view
\* returned the highlighting has one entry for each character of the view
\* text, and entry i is the tag of the document at original position
\* reverse_mapping[i], or the empty tag; a view of the example with
\* highlighting {1: 'kw'} from offset 0 has the tag 'kw' at view position 1
\* and empty tags elsewhere.
HighlightingProjected ==
    /\ view.result.line # 427
    /\ Returns =>
          /\ Len(view.result.highlighting) = Len(view.result.text)
          /\ Len(view.result.viewpos_to_origpos) >= Len(view.result.text)
          /\ \A i \in 1..Len(view.result.text) :
                view.result.highlighting[i] = TagAt(view.result.viewpos_to_origpos[i])
    /\ (Returns /\ doc = ExampleHighlightedDoc /\ view.offset = 0) =>
          \A i \in 1..Len(view.result.text) :
             view.result.highlighting[i] = (IF i - 1 = 1 THEN "kw" ELSE "")

HighlightingProjectedWitness ==
    /\ doc = ExampleHighlightedDoc
    /\ view.op = "for_screen"
    /\ view.result.status = "ok"
    /\ view.result.text = <<"a", "X", "d", "e", "f">>
    /\ view.result.viewpos_to_origpos[3] = 3
    /\ view.result.highlighting = <<"", "kw", "", "", "">>

\* for_screen was called with arguments it accepts.
ValidScreen ==
    /\ view.op = "for_screen"
    /\ view.width > 0 /\ view.height > 0
    /\ 0 <= view.offset /\ view.offset <= Len(doc.text)

\* C14: a screen view at offset = length of the text is built for every
\* document, whatever its substitutions and its selection, also at an offset
\* greater than 0: its text is '' and both of its mappings are [0].
EmptyRemainderView ==
    (ValidScreen /\ view.offset = Len(doc.text)) =>
        /\ view.result.status = "ok"
        /\ view.result.text = <<>>
        /\ view.result.origpos_to_viewpos = <<0>>
        /\ view.result.viewpos_to_origpos = <<0>>

\* The sampling of a screen view of a non-empty remainder came to its end:
\* the loops finished and the first sample passed the assertion of line 300.
Sampled ==
    /\ ValidScreen
    /\ view.offset < Len(doc.text)
    /\ view.result.status # "hang"
    /\ view.result.line # 300

\* C15: whenever a screen view of a non-empty remainder is sampled, the
\* required length of the view text is greater than half the length of the
\* last sample's view text, and the assertion of line 320 does not fail.
DoublingNeverOvershoots ==
    Sampled =>
        /\ view.result.required_length > Len(view.result.vtext) \div 2
        /\ view.result.line # 320

\* The step is an iteration of the merge loop of a sample.
MergeIterates ==
    /\ view.op = "sampling"
    /\ view'.op = "sampling"
    /\ view'.length = view.length
    /\ view'.result.iterations # view.result.iterations

\* C16: every call of for_screen with valid arguments terminates, as every
\* iteration of a merge loop advances the cursors of the loop: no iteration
\* leaves the loop in the state it began in, from where it would repeat
\* for ever.
MergeLoopAdvances == [][MergeIterates => view'.result.s # view.result.s]_vars

\* The same as a liveness property: a call that samples the text returns a
\* view or raises.
ScreenViewTerminates == (view.op = "sampling") ~> (view.op = "for_screen")

\* C17: in every view for_screen or for_entire_text returns, the forward
\* mapping has length(view text) + 1 entries and the view text has the
\* required length, and no call fails one of the assertions on these lengths:
\* those of lines 333 and 334 in the construction of a screen view and that
\* of line 444 at the begin of the selection projection.
MappingLengthAssertionsHold ==
    /\ Returns =>
          /\ Len(view.result.origpos_to_viewpos) = Len(view.result.text) + 1
          /\ Len(view.result.text) = view.result.required_length
    /\ view.op \in {"for_screen", "for_entire_text"} =>
          view.result.line \notin {333, 334, 444}

\* C18: the selection projection of a view neither fails nor leaves the view:
\* no index into the forward mapping is out of range (lines 458 and 461),
\* no clipped or mapped interval has its end before its begin (lines 456 and
\* 462), the post condition of line 165 holds, and every interval of the
\* selection of a returned view lies within the view text.
SelectionProjectionInBounds ==
    /\ view.op \in {"for_screen", "for_entire_text"} =>
          view.result.line \notin {165, 456, 458, 461, 462}
    /\ Returns =>
          \A j \in 1..Len(view.result.selection) :
             /\ 0 <= view.result.selection[j][1]
             /\ view.result.selection[j][1] <= view.result.selection[j][2]
             /\ view.result.selection[j][2] <= Len(view.result.text)

====
